---------------------------- MODULE Spec2Model ----------------------------
(***************************************************************************)
(* Model of the create-summary Lambda handler of daily-aws-news            *)
(* (src/unnamed/part_000): the publication window, the feed adapter        *)
(* getFeed, the bounded-concurrency translation batches (bluebird          *)
(* Promise.map with concurrency 5), the tag aggregation, the rendering of  *)
(* the markdown body and the PutObject that publishes the digest.          *)
(*                                                                         *)
(* The handler is an async function: one action of the model is one turn   *)
(* of the event loop, from the completion of the call the handler awaits   *)
(* to the next await.                                                      *)
(*                                                                         *)
(* Dates.  A JavaScript Date is a number of milliseconds.  The model       *)
(* carries it as the milliseconds since 00:00:00.000 UTC of the day        *)
(* BaseEpochDay (days since 1970-01-01), which keeps every value inside    *)
(* TLC's 32-bit integers.  The Lambda runtime's process timezone is UTC    *)
(* (the stack sets no TZ), so the local-time getters and setters of Date   *)
(* are the UTC ones and every day has MsPerDay milliseconds.               *)
(***************************************************************************)
EXTENDS Integers, Sequences, FiniteSets, TLC

\* ------------------------------------------------------------------ bounds
\* Epoch day of the model's day 0 (19047 = Thursday 2022-02-24).
BaseEpochDay == 19047
\* Executions happen on days 0 .. MaxDay of the model.
MaxDay == 13
\* Largest number of items of one feed in the translation batches.
MaxBatch == 7
\* Largest number of invocations delivered one after the other.
MaxRuns == 3

\* --------------------------------------------------------------- constants
\* { concurrency: 5 } of every Promise.map of the handler.
Concurrency == 5

MsPerSecond == 1000
MsPerMinute == 60 * MsPerSecond
MsPerHour == 60 * MsPerMinute
MsPerDay == 24 * MsPerHour

\* ------------------------------------------------------------ Date methods
\* Days since 1970-01-01 of the instant t.
EpochDay(t) == BaseEpochDay + (t \div MsPerDay)

\* Date.prototype.getHours / getMinutes / getSeconds / getMilliseconds.
getHours(t) == (t % MsPerDay) \div MsPerHour
getMinutes(t) == (t % MsPerHour) \div MsPerMinute
getSeconds(t) == (t % MsPerMinute) \div MsPerSecond
getMilliseconds(t) == t % MsPerSecond

\* Date.prototype.getDay: 0 = Sunday .. 6 = Saturday (1970-01-01: Thursday).
getDay(t) == (EpochDay(t) + 4) % 7

\* d.setHours(0, 0, 0, 0): the start of d's calendar day.
setHoursZero(t) == t - (t % MsPerDay)

\* d.setDate(d.getDate() + n): n calendar days later, same time of day.
addDays(t, n) == t + n * MsPerDay

\* The civil date of a day number (days since 1970-01-01), as the proleptic
\* Gregorian calendar of Date gives it.
CivilFromDays(z0) ==
    LET z == z0 + 719468
        era == z \div 146097
        doe == z - era * 146097
        yoe == (doe - (doe \div 1460) + (doe \div 36524) - (doe \div 146096)) \div 365
        doy == doe - (365 * yoe + (yoe \div 4) - (yoe \div 100))
        mp == (5 * doy + 2) \div 153
        d == doy - ((153 * mp + 2) \div 5) + 1
        m == IF mp < 10 THEN mp + 3 ELSE mp - 9
        y == yoe + era * 400 + (IF m <= 2 THEN 1 ELSE 0)
    IN  [year |-> y, month |-> m, day |-> d]

\* Date.prototype.toISOString: "YYYY-MM-DDTHH:mm:ss.sssZ", field by field.
toISOString(t) ==
    [date |-> CivilFromDays(EpochDay(t)),
     time |-> [h |-> getHours(t), m |-> getMinutes(t),
               s |-> getSeconds(t), ms |-> getMilliseconds(t)]]

\* Date.prototype.toLocaleString(locale, { timeZone }): the wall-clock fields
\* in a zone offsetHours ahead of UTC, in the locale's format.
toLocaleString(t, locale, offsetHours) ==
    [locale |-> locale,
     date |-> CivilFromDays(EpochDay(t + offsetHours * MsPerHour)),
     h |-> getHours(t + offsetHours * MsPerHour),
     m |-> getMinutes(t), s |-> getSeconds(t)]


\* ------------------------------------------------- the publication window
\* handler, lines 98-102: the window end before the weekday correction.
NormalizeLatest(executed) ==
    IF getHours(executed) # 0 \/ getMinutes(executed) # 0
    THEN addDays(setHoursZero(executed), 1)
    ELSE executed

\* The correction with Sunday widening the upper bound only.
WeekdayCorrectionSundayUpperOnly(oldest, latest) ==
    CASE getDay(latest) = 6 -> [oldest |-> oldest, latest |-> addDays(latest, 2)]
      [] getDay(latest) = 0 -> [oldest |-> oldest, latest |-> addDays(latest, 1)]
      [] getDay(latest) = 1 -> [oldest |-> addDays(oldest, -2), latest |-> latest]
      [] OTHER -> [oldest |-> oldest, latest |-> latest]

\* handler, lines 106-119: the weekday correction of (oldest, latest].
WeekdayCorrection(oldest, latest) ==
    CASE getDay(latest) = 6 -> [oldest |-> oldest, latest |-> addDays(latest, 2)]
      [] getDay(latest) = 0 -> [oldest |-> addDays(oldest, -1), latest |-> addDays(latest, 1)]
      [] getDay(latest) = 1 -> [oldest |-> addDays(oldest, -2), latest |-> latest]
      [] OTHER -> [oldest |-> oldest, latest |-> latest]

\* The window with oldest two days before the window end.
PubDateWindowOfTwoDays(executed) ==
    LET latest == NormalizeLatest(executed)
        oldest == addDays(latest, -2)
    IN  WeekdayCorrection(oldest, latest)

\* handler, lines 98-119: oldestPubDate and latestPubDate of an execution.
PubDateWindow(executed) ==
    LET latest == NormalizeLatest(executed)
        oldest == addDays(latest, -1)
    IN  WeekdayCorrection(oldest, latest)

\* ------------------------------------------------------ strings and arrays
\* A string is the sequence of its characters.
Range(a) == {a[i] : i \in 1..Len(a)}

\* The first index at which p occurs in s, 0 when it does not (indexOf + 1).
IndexOf(s, p) ==
    LET hits == {i \in 1..(Len(s) - Len(p) + 1) : SubSeq(s, i, i + Len(p) - 1) = p}
    IN  IF hits = {} THEN 0 ELSE CHOOSE i \in hits : \A j \in hits : i <= j

\* String.prototype.split(sep), sep one character.
RECURSIVE split(_, _)
split(s, sep) ==
    LET i == IndexOf(s, <<sep>>)
    IN  IF i = 0 THEN <<s>>
        ELSE <<SubSeq(s, 1, i - 1)>> \o split(SubSeq(s, i + 1, Len(s)), sep)

\* String.prototype.startsWith(p).
startsWith(s, p) == Len(s) >= Len(p) /\ SubSeq(s, 1, Len(p)) = p

\* String.prototype.replace(p, r), p a string: the first occurrence only.
replace(s, p, r) ==
    LET i == IndexOf(s, p)
    IN  IF i = 0 THEN s
        ELSE SubSeq(s, 1, i - 1) \o r \o SubSeq(s, i + Len(p), Len(s))

\* Array.prototype.flatMap(f) of an array of arrays already mapped.
RECURSIVE flatten(_)
flatten(a) == IF a = <<>> THEN <<>> ELSE Head(a) \o flatten(Tail(a))

\* Array.prototype.toString: the elements joined by ",".
RECURSIVE arrayToString(_)
arrayToString(a) ==
    IF a = <<>> THEN <<>>
    ELSE IF Len(a) = 1 THEN a[1]
    ELSE a[1] \o <<",">> \o arrayToString(Tail(a))

\* Array.from(new Set(a)): each value once, in the order of first insertion.
RECURSIVE arrayFromSet(_)
arrayFromSet(a) ==
    IF a = <<>> THEN <<>>
    ELSE LET r == arrayFromSet(SubSeq(a, 1, Len(a) - 1))
             x == a[Len(a)]
         IN  IF x \in Range(r) THEN r ELSE Append(r, x)

\* 'general:products/'
ProductPrefix ==
    <<"g","e","n","e","r","a","l",":","p","r","o","d","u","c","t","s","/">>

\* handler, lines 166-167: the product tags of one item's categories.
ProductsOf(itemCategories) ==
    LET categories == flatten([i \in 1..Len(itemCategories) |->
                                  split(itemCategories[i], ",")])
        products == SelectSeq(categories, LAMBDA x : startsWith(x, ProductPrefix))
    IN  [i \in 1..Len(products) |-> replace(products[i], ProductPrefix, <<>>)]

\* handler, lines 165-169: the tags pushed for a list of items, in order.
RECURSIVE PushProducts(_, _)
PushProducts(tags, items) ==
    IF items = <<>> THEN tags
    ELSE PushProducts(tags \o ProductsOf(Head(items).categories), Tail(items))


\* ------------------------------------------------------ the configuration
\* The lists of './config' (one source of each kind).
source ==
    [youtube |-> [playlists |->
        <<[id |-> "playlist-1", title |-> [ja |-> "playlist-1 (ja)", en |-> "playlist-1 (en)"]]>>],
     awsJapanBlogs |->
        <<[category |-> "news", title |-> [ja |-> "news (ja)", en |-> "news (en)"]]>>,
     awsBlogs |-> <<[category |-> "aws"]>>,
     githubRepos |-> <<[name |-> "aws/aws-cdk", title |-> "AWS CDK"]>>]

bucketName == "BUCKET_NAME"
hugoContentPath == "HUGO_CONTENT_PATH"

\* The feeds of the handler in the order it fetches them (lines 153-233):
\* the section the items go to, the feed's URL, the language the feed is
\* written in ("none": never translated) and the field that is translated.
Plan ==
    <<[section |-> "announcements",
       feedUrl |-> <<"https://aws.amazon.com/new/feed/", "", "">>,
       from |-> "en", field |-> "contentSnippet",
       title |-> [ja |-> "", en |-> ""], link |-> ""]>>
    \o [i \in 1..Len(source.youtube.playlists) |->
         [section |-> "youtube",
          feedUrl |-> <<"https://www.youtube.com/feeds/videos.xml?playlist_id=",
                        source.youtube.playlists[i].id, "">>,
          from |-> "ja", field |-> "title",
          title |-> source.youtube.playlists[i].title, link |-> ""]]
    \o [i \in 1..Len(source.awsJapanBlogs) |->
         [section |-> "awsJapanBlogs",
          feedUrl |-> <<"https://aws.amazon.com/jp/blogs/",
                        source.awsJapanBlogs[i].category, "/feed/">>,
          from |-> "ja", field |-> "title",
          title |-> source.awsJapanBlogs[i].title, link |-> ""]]
    \o [i \in 1..Len(source.awsBlogs) |->
         [section |-> "awsBlogs",
          feedUrl |-> <<"https://aws.amazon.com/blogs/",
                        source.awsBlogs[i].category, "/feed/">>,
          from |-> "en", field |-> "title",
          title |-> [ja |-> "", en |-> ""], link |-> ""]]
    \o [i \in 1..Len(source.githubRepos) |->
         [section |-> "oss",
          feedUrl |-> <<"https://github.com/", source.githubRepos[i].name,
                        "/releases.atom">>,
          from |-> "none", field |-> "title",
          title |-> [ja |-> source.githubRepos[i].title,
                     en |-> source.githubRepos[i].title],
          link |-> <<"https://github.com/", source.githubRepos[i].name, "/">>]]

FeedUrls == {Plan[i].feedUrl : i \in 1..Len(Plan)}

\* ------------------------------------------------------------- getFeed
\* new Date(item.pubDate) of a feed item: [valid, t]; an Invalid Date
\* compares false with every date.
DateGT(a, b) == a.valid /\ b.valid /\ a.t > b.t
DateLE(a, b) == a.valid /\ b.valid /\ a.t <= b.t
ValidDate(t) == [valid |-> TRUE, t |-> t]
InvalidDate == [valid |-> FALSE, t |-> 0]

\* The filter with a closed lower bound.
InRangeClosedLower(pubDate, oldestPubDate, latestPubDate) ==
    DateLE(ValidDate(oldestPubDate), pubDate) /\ DateLE(pubDate, ValidDate(latestPubDate))

\* getFeed, line 56: the filter's predicate.
InRange(pubDate, oldestPubDate, latestPubDate) ==
    DateGT(pubDate, ValidDate(oldestPubDate)) /\ DateLE(pubDate, ValidDate(latestPubDate))

\* getFeed without its catch: the failure of parser.parseURL is rethrown.
getFeedWithoutCatch(response, oldestPubDate, latestPubDate) ==
    IF response.ok
    THEN [threw |-> FALSE, title |-> response.title,
          items |-> SelectSeq(response.items,
                      LAMBDA item : DateGT(item.pubDate, ValidDate(oldestPubDate))
                                    /\ DateLE(item.pubDate, ValidDate(latestPubDate)))]
    ELSE [threw |-> TRUE, title |-> "error", items |-> <<>>]

\* getFeed, lines 50-65.  response is what parser.parseURL does for the URL:
\* [ok |-> FALSE] when it throws, [ok |-> TRUE, title, items] otherwise.
\* threw: whether getFeed itself throws (its catch leaves nothing to throw).
getFeed(response, oldestPubDate, latestPubDate) ==
    IF response.ok
    THEN [threw |-> FALSE, title |-> response.title,
          items |-> SelectSeq(response.items,
                      LAMBDA item : InRange(item.pubDate, oldestPubDate, latestPubDate))]
    ELSE [threw |-> FALSE, title |-> "error", items |-> <<>>]

\* ----------------------------------------------------------- translate
\* A text is [s, lang]: what it says and the language it says it in.
\* TranslateText answers with the text in the target language, with an
\* empty TranslatedText, or with an error.
TranslateOutcomes == {"translated", "empty", "error"}
EmptyText == [s |-> [what |-> "", of |-> <<>>], lang |-> ""]
Translated(text, targetLanguageCode) == [text EXCEPT !.lang = targetLanguageCode]

\* translate, lines 38-47: what the call returns when client.send answers
\* with outcome ("translated" or "empty"); it has no catch for "error".
translate(text, targetLanguageCode, outcome) ==
    LET TranslatedText == IF outcome = "translated"
                          THEN Translated(text, targetLanguageCode)
                          ELSE EmptyText
    IN  IF TranslatedText # EmptyText THEN TranslatedText ELSE text

\* ------------------------------------------------- Promise.map (bluebird)
\* The calls of a batch: "queued", "inflight", "fulfilled" or "rejected".
InFlight(b) == {i \in 1..Len(b.state) : b.state[i] = "inflight"}

\* A limit that lets one call more through.
LimitOffByOne == Concurrency + 1

\* The { concurrency } option the handler passes to every Promise.map
\* (less than 1: no limit).
Limit == Concurrency

\* Promise.map(items, mapper, { concurrency }): the mapper is called for the
\* items in order while fewer than the limit are in flight, the other
\* indices are queued in order.
StartMap(items, field, target) ==
    LET started == IF Limit >= 1 /\ Len(items) > Limit THEN Limit ELSE Len(items)
    IN  [items |-> items, field |-> field, target |-> target,
         state |-> [i \in 1..Len(items) |-> IF i <= started THEN "inflight" ELSE "queued"],
         queue |-> [j \in 1..(Len(items) - started) |-> started + j]]

\* _drainQueue: while calls are queued and fewer than the limit are in
\* flight, the index popped from the end of the queue is started.
RECURSIVE DrainQueue(_)
DrainQueue(b) ==
    IF Len(b.queue) > 0 /\ Cardinality(InFlight(b)) < Limit
    THEN LET index == b.queue[Len(b.queue)]
         IN  DrainQueue([b EXCEPT !.queue = SubSeq(b.queue, 1, Len(b.queue) - 1),
                                  !.state[index] = "inflight"])
    ELSE b

\* A mapper that shares one item variable between its calls: every
\* continuation writes to the last item of the list.
TargetIndexShared(b, i) == Len(b.items)

\* The index the mapper's continuation of call i writes to: its own item.
TargetIndex(b, i) == i

\* The mapper of lines 160, 193, 206 and 218 resumes after call i:
\* item[field] = (the value translate returned); the batch then drains.
Fulfil(b, i, outcome) ==
    LET k == TargetIndex(b, i)
        value == translate(b.items[i][b.field], b.target, outcome)
    IN  DrainQueue([b EXCEPT !.items[k][b.field] = value,
                             !.state[i] = "fulfilled"])

NoBatch == [items |-> <<>>, field |-> "", target |-> "", state |-> <<>>, queue |-> <<>>]


\* ------------------------------------------------------------- rendering
\* The markdown builder's document: the sequence of the elements added.
Newline == [el |-> "newline"]

RenderAnnouncements(announcements) ==
    IF Len(announcements) > 0
    THEN flatten([i \in 1..Len(announcements) |->
            <<[el |-> "bold", v |-> [is |-> "item", section |-> "announcements",
                                     title |-> announcements[i].title,
                                     link |-> announcements[i].link]],
              Newline,
              [el |-> "blockQuote", v |-> announcements[i].contentSnippet]>>])
    ELSE <<[el |-> "text", v |-> [is |-> "No updates."]], Newline>>

\* One group of a section: its h4 title and a bulleted link per item.
RenderGroup(section, group, newlineAfterTitle) ==
    <<[el |-> "h4", v |-> group.title]>>
    \o (IF newlineAfterTitle THEN <<Newline>> ELSE <<>>)
    \o flatten([i \in 1..Len(group.items) |->
            <<[el |-> "text", v |-> [is |-> "item", section |-> section,
                                     title |-> group.items[i].title,
                                     link |-> group.items[i].link]],
              Newline>>])

\* A section is rendered when it has a group (lines 255, 265, 275).
RenderSection(header, groups, newlineAfterTitle) ==
    IF Len(groups) > 0
    THEN <<[el |-> "h3", v |-> header]>>
         \o flatten([i \in 1..Len(groups) |->
                RenderGroup(header, groups[i], newlineAfterTitle)])
    ELSE <<>>

\* handler, lines 237-283: mdBody.  (The Japanese header of line 244 and the
\* Japanese description of line 127 are written in Latin letters.)
Render(lang, frontMatter, pubDateRange, data) ==
    <<[el |-> "text", v |-> [is |-> "frontMatter", json |-> frontMatter]], Newline,
      [el |-> "text", v |-> [is |-> "pubDateRange", range |-> pubDateRange]], Newline,
      [el |-> "h3", v |-> IF lang = "ja" THEN "saikin no happyou" ELSE "Recent Announcements"]>>
    \o RenderAnnouncements(data.announcements)
    \o RenderSection("YouTube", data.youtube, FALSE)
    \o RenderSection("AWS Blogs", data.blogs, TRUE)
    \o RenderSection("Open Source Project", data.oss, FALSE)

\* handler, lines 285-298: the object PutObjectCommand writes.
PutObjectInput(lang, frontMatter, pubDateRange, data) ==
    [Body |-> Render(lang, frontMatter, pubDateRange, data),
     ContentType |-> "text/markdown; charset=UTF-8",
     Metadata |-> [draft |-> IF frontMatter.draft THEN "true" ELSE "false",
                   date |-> frontMatter.date,
                   lastmod |-> frontMatter.lastmod,
                   categories |-> arrayToString(frontMatter.categories),
                   series |-> arrayToString(frontMatter.series),
                   tags |-> arrayToString(frontMatter.tags)]]

\* -------------------------------------------------- the handler's locals
\* handler, lines 94-130, for an event whose time parses.
Locals(event) ==
    LET executedDate == event.time.t
        window == PubDateWindow(executedDate)
        articleTitle == toISOString(window.oldest).date
        urlPath == [dir |-> "headlines",
                    name |-> articleTitle.year * 10000 + articleTitle.month * 100
                             + articleTitle.day]
    IN  [lang |-> event.lang, isDraft |-> event.isDraft,
         executedDate |-> executedDate,
         normalized |-> NormalizeLatest(executedDate),
         oldestPubDate |-> window.oldest,
         latestPubDate |-> window.latest,
         pubDateRange |->
            IF event.lang = "ja"
            THEN [oldest |-> toLocaleString(window.oldest, "ja-JP", 9),
                  latest |-> toLocaleString(window.latest, "ja-JP", 9), tz |-> "(JST)"]
            ELSE [oldest |-> toLocaleString(window.oldest, "en-US", 0),
                  latest |-> toLocaleString(window.latest, "en-US", 0), tz |-> "(UTC)"],
         articleTitle |-> articleTitle,
         articleDescription |-> IF event.lang = "ja" THEN "AWS kanren no news headline"
                                ELSE "AWS News Headlines",
         urlPath |-> urlPath,
         objectKey |-> [dir |-> hugoContentPath, urlPath |-> urlPath,
                        file |-> <<"index", event.lang, "md">>]]

NoLocals == [lang |-> "", isDraft |-> FALSE]

\* getMetadata, lines 23-35: HeadObject answers with the object's metadata,
\* or throws (no such key, or any other error), which yields undefined.
Undefined == [defined |-> FALSE]
getMetadata(bucket, key, metadataKey, headObjectOk) ==
    IF headObjectOk /\ key \in DOMAIN bucket
    THEN [defined |-> TRUE, value |-> bucket[key].Metadata[metadataKey]]
    ELSE Undefined

\* A frontMatter whose date is always the execution time.
FrontMatterDateReset(locals, priorDate) ==
    [draft |-> locals.isDraft,
     isCJKLanguage |-> (locals.lang = "ja"),
     title |-> locals.articleTitle,
     description |-> locals.articleDescription,
     date |-> toISOString(locals.executedDate),
     lastmod |-> toISOString(locals.executedDate),
     categories |-> <<"news">>,
     series |-> <<"daily-aws">>,
     tags |-> <<>>]

\* handler, lines 133-143.
FrontMatter(locals, priorDate) ==
    [draft |-> locals.isDraft,
     isCJKLanguage |-> (locals.lang = "ja"),
     title |-> locals.articleTitle,
     description |-> locals.articleDescription,
     date |-> IF priorDate.defined THEN priorDate.value
              ELSE toISOString(locals.executedDate),
     lastmod |-> toISOString(locals.executedDate),
     categories |-> <<"news">>,
     series |-> <<"daily-aws">>,
     tags |-> <<>>]

NoFrontMatter == [tags |-> <<>>]
EmptyData == [announcements |-> <<>>, youtube |-> <<>>, blogs |-> <<>>, oss |-> <<>>]

\* The title of a group in the language of the digest (lines 188, 201).
TitleIn(lang, title) == IF lang = "ja" THEN title.ja ELSE title.en

\* A group pushed whether it has items or not.
PushGroupAlways(groups, group) == Append(groups, group)

\* A group is pushed when it has items (lines 191, 204, 216, 230).
PushGroup(groups, group) ==
    IF Len(group.items) > 0 THEN Append(groups, group) ELSE groups

\* handler, lines 165-170, 195, 208, 220 and 231: what the step of plan
\* entry p does with the feed's (translated) items.
Collect(d, lang, p, feedTitle, items) ==
    CASE p.section = "announcements" ->
           [d EXCEPT !.announcements = @ \o items]
      [] p.section = "youtube" ->
           [d EXCEPT !.youtube = PushGroup(@, [title |-> TitleIn(lang, p.title),
                                               items |-> items])]
      [] p.section = "awsJapanBlogs" ->
           [d EXCEPT !.blogs = PushGroup(@, [title |-> TitleIn(lang, p.title),
                                             items |-> items])]
      [] p.section = "awsBlogs" ->
           [d EXCEPT !.blogs = PushGroup(@, [title |-> feedTitle, items |-> items])]
      [] OTHER ->
           [d EXCEPT !.oss = PushGroup(@, [title |-> TitleIn(lang, p.title),
                                           link |-> p.link, items |-> items])]

\* The tags left as pushed.
DedupeTagsMissing(tags) == tags

\* handler, line 235.
DedupeTags(tags) == arrayFromSet(tags)


\* ----------------------------------------------------------------- state
VARIABLES
    pending,      \* the events the trigger has scheduled, not yet delivered
    feeds,        \* what parser.parseURL answers for each feed URL
    s3,           \* the bucket: object key -> [Body, ContentType, Metadata]
    pc,           \* the await the handler is suspended at, or how it ended
    locals,       \* the handler's constants of lines 94-130
    frontMatter,  \* frontMatter (lines 133-143, tags pushed at line 168)
    data,         \* data (lines 145-150)
    cursor,       \* the entry of Plan whose feed is being fetched
    returned,     \* what getFeed returned for the entries fetched so far
    batch,        \* the Promise.map in progress
    result,       \* the handler's promise: pending, fulfilled or rejected
    log           \* one record per invocation: its event, the prior date
                  \* getMetadata returned, and what it wrote

vars == <<pending, feeds, s3, pc, locals, frontMatter, data, cursor,
          returned, batch, result, log>>

\* The invocation in progress, or the last one.
Run == log[Len(log)]

\* ---------------------------------------------------------------- actions
\* The trigger delivers an event; handler lines 93-138, up to the await of
\* getMetadata.  An Invalid Date throws at toISOString (line 125).
Invoke ==
    /\ pc \in {"idle", "done", "failed"}
    /\ pending # <<>>
    /\ LET event == Head(pending)
       IN  /\ pending' = Tail(pending)
           /\ IF event.time.valid
              THEN /\ locals' = Locals(event)
                   /\ pc' = "HeadObject"
                   /\ result' = [state |-> "pending"]
                   /\ log' = Append(log, [event |-> event, prior |-> Undefined,
                                          outcome |-> "running", wrote |-> Undefined])
              ELSE /\ locals' = NoLocals
                   /\ pc' = "failed"
                   /\ result' = [state |-> "rejected",
                                 reason |-> "RangeError: Invalid time value"]
                   /\ log' = Append(log, [event |-> event, prior |-> Undefined,
                                          outcome |-> "failed", wrote |-> Undefined])
    /\ frontMatter' = NoFrontMatter
    /\ data' = EmptyData
    /\ cursor' = 0
    /\ returned' = <<>>
    /\ batch' = NoBatch
    /\ UNCHANGED <<feeds, s3>>

\* HeadObject answers or throws; handler lines 138-155, up to the await of
\* the first getFeed.
HeadObjectReturns ==
    /\ pc = "HeadObject"
    /\ \E headObjectOk \in BOOLEAN :
         LET prior == getMetadata(s3, locals.objectKey, "date", headObjectOk)
         IN  /\ frontMatter' = FrontMatter(locals, prior)
             /\ log' = [log EXCEPT ![Len(log)].prior = prior]
    /\ pc' = "parseURL"
    /\ cursor' = 1
    /\ UNCHANGED <<pending, feeds, s3, locals, data, returned, batch, result>>

\* The handler goes on with the items of Plan[cursor]: they are collected,
\* and either the next feed is fetched or (lines 235-299) the tags are
\* deduplicated and PutObject is sent.
Resume(feedTitle, items) ==
    LET p == Plan[cursor]
        tags == IF p.section = "announcements"
                THEN PushProducts(frontMatter.tags, items)
                ELSE frontMatter.tags
        last == (cursor = Len(Plan))
    IN  /\ data' = Collect(data, locals.lang, p, feedTitle, items)
        /\ frontMatter' = [frontMatter EXCEPT
                              !.tags = IF last THEN DedupeTags(tags) ELSE tags]
        /\ cursor' = IF last THEN cursor ELSE cursor + 1
        /\ pc' = IF last THEN "PutObject" ELSE "parseURL"

\* Whether the step of plan entry p translates the items (lines 156, 192,
\* 205, 217); an empty list maps to an empty batch, which resolves at once.
NeedsTranslation(p, lang, items) ==
    /\ p.from # "none"
    /\ lang # p.from
    /\ Len(items) > 0

\* parser.parseURL answers or throws; getFeed lines 53-63, then the handler
\* up to its next await.  Were getFeed to throw, the handler's await of it
\* would reject the handler.
ParseURLReturns ==
    /\ pc = "parseURL"
    /\ LET p == Plan[cursor]
           feed == getFeed(feeds[p.feedUrl], locals.oldestPubDate, locals.latestPubDate)
       IN  /\ returned' = Append(returned, feed)
           /\ IF feed.threw
              THEN /\ pc' = "failed"
                   /\ result' = [state |-> "rejected", reason |-> "parseURL error"]
                   /\ log' = [log EXCEPT ![Len(log)].outcome = "failed"]
                   /\ UNCHANGED <<data, frontMatter, cursor, batch>>
              ELSE /\ IF NeedsTranslation(p, locals.lang, feed.items)
                      THEN /\ batch' = StartMap(feed.items, p.field, locals.lang)
                           /\ pc' = "Promise.map"
                           /\ UNCHANGED <<data, frontMatter, cursor>>
                      ELSE /\ Resume(feed.title, feed.items)
                           /\ batch' = NoBatch
                   /\ UNCHANGED <<result, log>>
    /\ UNCHANGED <<pending, feeds, s3, locals>>

\* One TranslateText call in flight answers.  An error rejects the mapper's
\* promise, hence the batch, hence the handler (nothing catches it).
\* Otherwise the mapper stores the text, queued calls are started, and when
\* the last call is fulfilled the handler goes on.
TranslateReturns ==
    /\ pc = "Promise.map"
    /\ \E i \in InFlight(batch), outcome \in TranslateOutcomes :
         IF outcome = "error"
         THEN /\ batch' = [batch EXCEPT !.state[i] = "rejected"]
              /\ pc' = "failed"
              /\ result' = [state |-> "rejected", reason |-> "TranslateText error"]
              /\ log' = [log EXCEPT ![Len(log)].outcome = "failed"]
              /\ UNCHANGED <<data, frontMatter, cursor>>
         ELSE LET b == Fulfil(batch, i, outcome)
              IN  /\ IF \A j \in 1..Len(b.state) : b.state[j] = "fulfilled"
                     THEN /\ Resume(returned[cursor].title, b.items)
                          /\ batch' = NoBatch
                     ELSE /\ batch' = b
                          /\ UNCHANGED <<pc, data, frontMatter, cursor>>
                  /\ UNCHANGED <<result, log>>
    /\ UNCHANGED <<pending, feeds, s3, locals, returned>>

\* The function's deadline passes while TranslateText calls are in flight:
\* translate builds its client with no request timeout and passes no abort
\* signal, so a call that is not answered stays in flight until the
\* function's timeout (3 minutes) ends the invocation, which fails for its
\* caller; nothing catches it and PutObject is never sent.
TaskTimedOut ==
    /\ pc = "Promise.map"
    /\ InFlight(batch) # {}
    /\ pc' = "failed"
    /\ result' = [state |-> "rejected", reason |-> "Task timed out"]
    /\ log' = [log EXCEPT ![Len(log)].outcome = "failed"]
    /\ UNCHANGED <<pending, feeds, s3, locals, frontMatter, data, cursor,
                   returned, batch>>

\* handler, lines 301-309.
Payload(l) ==
    [lang |-> l.lang, title |-> l.articleTitle, description |-> l.articleDescription,
     pubDateRange |-> l.pubDateRange, urlPath |-> l.urlPath]

\* PutObject is applied by the bucket (the storage's own failures are not
\* modelled); handler lines 299-309.
PutObjectReturns ==
    /\ pc = "PutObject"
    /\ s3' = (locals.objectKey :>
                 PutObjectInput(locals.lang, frontMatter, locals.pubDateRange, data))
             @@ s3
    /\ pc' = "done"
    /\ result' = [state |-> "fulfilled", payload |-> Payload(locals)]
    /\ log' = [log EXCEPT ![Len(log)].outcome = "done",
                           ![Len(log)].wrote =
                              [defined |-> TRUE, key |-> locals.objectKey,
                               Metadata |-> s3'[locals.objectKey].Metadata]]
    /\ UNCHANGED <<pending, feeds, locals, frontMatter, data, cursor, returned, batch>>

Next ==
    \/ Invoke
    \/ HeadObjectReturns
    \/ ParseURLReturns
    \/ TranslateReturns
    \/ TaskTimedOut
    \/ PutObjectReturns


\* --------------------------------------------------- inputs of the model
\* The instant h:m:s.x of day d of the model.
At(d, h, m, s, x) == d * MsPerDay + h * MsPerHour + m * MsPerMinute + s * MsPerSecond + x

Langs == {"ja", "en"}

\* Item n of the feed of Plan[f], published at pubDate, in the feed's language.
Item(f, n, pubDate, categories) ==
    LET lang == IF Plan[f].from = "none" THEN "en" ELSE Plan[f].from
    IN  [link |-> <<f, n>>,
         title |-> [s |-> [what |-> "title", of |-> <<f, n>>], lang |-> lang],
         contentSnippet |-> [s |-> [what |-> "snippet", of |-> <<f, n>>], lang |-> lang],
         pubDate |-> pubDate,
         categories |-> categories]

Failure == [ok |-> FALSE]
Feed(f, items) == [ok |-> TRUE, title |-> Plan[f].feedUrl[2], items |-> items]

\* The world in which the feed of Plan[f] answers with response[f].
World(response) == [u \in FeedUrls |->
                      response[CHOOSE f \in 1..Len(Plan) : Plan[f].feedUrl = u]]

Idle ==
    /\ s3 = [k \in {} |-> 0]
    /\ pc = "idle"
    /\ locals = NoLocals
    /\ frontMatter = NoFrontMatter
    /\ data = EmptyData
    /\ cursor = 0
    /\ returned = <<>>
    /\ batch = NoBatch
    /\ result = [state |-> "pending"]
    /\ log = <<>>

\* Category strings of announcement items.
S3 == <<"s","3">>
EC2 == <<"e","c","2">>
CategoryLists ==
    { <<>>,
      <<ProductPrefix \o S3>>,
      <<ProductPrefix \o S3 \o <<",">> \o ProductPrefix \o EC2,
        <<"m","a","r","k","e","t","i","n","g",":","x","/">> \o S3>>,
      <<ProductPrefix \o EC2 \o <<",">> \o ProductPrefix \o EC2>>,
      <<<<"x">> \o ProductPrefix \o S3, ProductPrefix \o ProductPrefix \o S3>>,
      <<ProductPrefix, <<",">>>> }

\* ---- Spec: one invocation, every feed failing, empty, stale or full.
\* The two executions: Tuesday 00:00 (window (day 4, day 5]) and the draft of
\* Saturday 22:00 (window (day 1, day 4]).
SpecEvents ==
    { [time |-> ValidDate(At(5, 0, 0, 0, 0)), isDraft |-> FALSE],
      [time |-> ValidDate(At(2, 22, 0, 0, 0)), isDraft |-> TRUE] }

\* A feed in reverse chronological order with items on, just after and far
\* from the bounds of both windows, and one whose date does not parse.
FullItems(f) ==
    <<Item(f, 1, ValidDate(At(5, 0, 0, 0, 1)), <<ProductPrefix \o <<"l","a","t","e">>>>),
      Item(f, 2, ValidDate(At(5, 0, 0, 0, 0)), <<ProductPrefix \o S3 \o <<",">> \o ProductPrefix \o EC2>>),
      Item(f, 3, ValidDate(At(4, 0, 0, 0, 1)), <<ProductPrefix \o S3>>),
      Item(f, 4, ValidDate(At(4, 0, 0, 0, 0)), <<ProductPrefix \o EC2, <<"o","t","h","e","r">>>>),
      Item(f, 5, ValidDate(At(1, 0, 0, 0, 1)), <<ProductPrefix \o EC2>>),
      Item(f, 6, ValidDate(At(1, 0, 0, 0, 0)), <<ProductPrefix \o <<"o","l","d">>>>),
      Item(f, 7, InvalidDate, <<ProductPrefix \o <<"n","a","n">>>>)>>

\* What a feed may answer: a failure, no item, one item outside both
\* windows, or the full list.
Responses(f) ==
    << Failure, Feed(f, <<>>),
       Feed(f, <<Item(f, 1, ValidDate(At(1, 0, 0, 0, 0)), <<>>)>>),
       Feed(f, FullItems(f)) >>

\* Announcement feeds of up to two items published inside the window of
\* Tuesday 00:00, with every choice of categories.
TagFeeds ==
    {Feed(1, <<>>)}
    \cup {Feed(1, <<Item(1, 1, ValidDate(At(5, 0, 0, 0, 0)), c1)>>) : c1 \in CategoryLists}
    \cup {Feed(1, <<Item(1, 1, ValidDate(At(5, 0, 0, 0, 0)), c1),
                    Item(1, 2, ValidDate(At(4, 12, 0, 0, 0)), c2)>>) :
            c1 \in CategoryLists, c2 \in CategoryLists}

Init ==
    /\ Idle
    /\ \/ \E e \in SpecEvents, lang \in Langs :
            /\ pending = <<[time |-> e.time, lang |-> lang, isDraft |-> e.isDraft]>>
            /\ \E choice \in [1..Len(Plan) -> 1..4] :
                 feeds = World([f \in 1..Len(Plan) |-> Responses(f)[choice[f]]])
       \/ \E lang \in Langs, a \in TagFeeds :
            /\ pending = <<[time |-> ValidDate(At(5, 0, 0, 0, 0)), lang |-> lang,
                            isDraft |-> FALSE]>>
            /\ feeds = World([f \in 1..Len(Plan) |-> IF f = 1 THEN a ELSE Failure])

Spec == Init /\ [][Next]_vars


\* ---- SpecWindow: one invocation at every time of day of every day; each
\* feed holds one item, published at the instant of the execution.
WindowTimes ==
    {At(d, h, m, sec, x) : d \in 0..MaxDay, h \in {0, 22, 23}, m \in {0, 30},
                             sec \in {0, 30}, x \in {0, 500}}

InitWindow ==
    /\ Idle
    /\ \E lang \in Langs :
         \/ \E t \in WindowTimes :
              /\ pending = <<[time |-> ValidDate(t), lang |-> lang,
                              isDraft |-> (getHours(t) # 0)]>>
              /\ feeds = World([f \in 1..Len(Plan) |->
                                  Feed(f, <<Item(f, 1, ValidDate(t), <<>>)>>)])
         \/ /\ pending = <<[time |-> InvalidDate, lang |-> lang, isDraft |-> FALSE]>>
            /\ feeds = World([f \in 1..Len(Plan) |-> Failure])

SpecWindow == InitWindow /\ [][Next]_vars

\* ---- SpecBatch: one invocation on Tuesday 00:00 whose first translated
\* feed holds 0 .. MaxBatch items of the window; the blog feeds hold one.
BatchItems(f, n) ==
    [k \in 1..n |-> Item(f, k, ValidDate(At(4, 0, 0, 0, k)), <<ProductPrefix \o S3>>)]

InitBatch ==
    /\ Idle
    /\ \E lang \in Langs, n \in 0..MaxBatch :
         /\ pending = <<[time |-> ValidDate(At(5, 0, 0, 0, 0)), lang |-> lang,
                         isDraft |-> FALSE]>>
         /\ feeds = World([f \in 1..Len(Plan) |->
                CASE Plan[f].section = (IF lang = "ja" THEN "announcements" ELSE "youtube")
                       -> Feed(f, BatchItems(f, n))
                  [] Plan[f].section \in {"awsJapanBlogs", "awsBlogs"}
                       -> Feed(f, BatchItems(f, 1))
                  [] OTHER -> Failure])

SpecBatch == InitBatch /\ [][Next]_vars

\* ---- SpecRuns: up to MaxRuns invocations one after the other: the draft
\* of Monday 22:00, the final run of Tuesday 00:00 (same window, in both
\* languages) and the draft of Tuesday 22:00.
RunEvents ==
    { [time |-> ValidDate(At(4, 22, 0, 0, 0)), lang |-> "ja", isDraft |-> TRUE],
      [time |-> ValidDate(At(5, 0, 0, 0, 0)), lang |-> "ja", isDraft |-> FALSE],
      [time |-> ValidDate(At(5, 0, 0, 0, 0)), lang |-> "en", isDraft |-> FALSE],
      [time |-> ValidDate(At(5, 22, 0, 0, 0)), lang |-> "ja", isDraft |-> TRUE] }

InitRuns ==
    /\ Idle
    /\ \E n \in 1..MaxRuns : \E events \in [1..n -> RunEvents] : pending = events
    /\ feeds = World([f \in 1..Len(Plan) |->
                        IF f = 1
                        THEN Feed(f, <<Item(f, 1, ValidDate(At(5, 0, 0, 0, 0)),
                                            <<ProductPrefix \o S3>>)>>)
                        ELSE Failure])

SpecRuns == InitRuns /\ [][Next]_vars

\* ---- SpecDays: the executions of 00:00:00 of each day of a range of
\* consecutive days, one after the other, in one language; the announcement
\* feed holds one item, published at 00:00 of the first day.
InitDays ==
    /\ Idle
    /\ \E lang \in Langs, first \in 0..MaxDay :
         /\ \E last \in first..MaxDay :
              pending = [i \in 1..(last - first + 1) |->
                           [time |-> ValidDate(At(first + i - 1, 0, 0, 0, 0)),
                            lang |-> lang, isDraft |-> FALSE]]
         /\ feeds = World([f \in 1..Len(Plan) |->
                             IF f = 1
                             THEN Feed(f, <<Item(f, 1, ValidDate(At(first, 0, 0, 0, 0)),
                                                 <<ProductPrefix \o S3>>)>>)
                             ELSE Failure])

SpecDays == InitDays /\ [][Next]_vars

\* ---- SpecPairs: two executions one after the other, each in either
\* language, on a day from Friday to Tuesday, at 00:00 or at 22:00, on the
\* minute or 30 seconds after it; the announcement feed holds one item,
\* published on Monday 00:00.
PairDays == {1, 2, 3, 4, 5}

PairEvents ==
    {[time |-> ValidDate(At(d, h, 0, sec, 0)), lang |-> lang, isDraft |-> (h # 0)] :
        d \in PairDays, h \in {0, 22}, sec \in {0, 30}, lang \in Langs}

InitPairs ==
    /\ Idle
    /\ \E first \in PairEvents, second \in PairEvents : pending = <<first, second>>
    /\ feeds = World([f \in 1..Len(Plan) |->
                        IF f = 1
                        THEN Feed(f, <<Item(f, 1, ValidDate(At(4, 0, 0, 0, 0)),
                                            <<ProductPrefix \o S3>>)>>)
                        ELSE Failure])

SpecPairs == InitPairs /\ [][Next]_vars


\* ================================================================ claims
\* The invocation in progress parsed its time and computed its window.
HasWindow == pc # "idle" /\ Run.event.time.valid

\* The body published for the invocation that is done.
Published == s3[locals.objectKey]

\* ---- C1
\* C1: with L the window end the handler computed before the weekday
\* correction, the window (oldest, latest] is (L-1d, L+2d] when L is a
\* Saturday, (L-2d, L+1d] when L is a Sunday, (L-3d, L] when L is a Monday
\* and (L-1d, L] from Tuesday to Friday; so latest - oldest is 3 days for
\* Saturday, Sunday and Monday, 1 day otherwise, and oldest < latest.
C1_WindowByWeekday ==
    HasWindow =>
      LET L == locals.normalized
          oldest == locals.oldestPubDate
          latest == locals.latestPubDate
          weekday == getDay(L)
      IN  /\ weekday = 6 => oldest = L - MsPerDay /\ latest = L + 2 * MsPerDay
          /\ weekday = 0 => oldest = L - 2 * MsPerDay /\ latest = L + MsPerDay
          /\ weekday = 1 => oldest = L - 3 * MsPerDay /\ latest = L
          /\ weekday \in 2..5 => oldest = L - MsPerDay /\ latest = L
          /\ latest - oldest = (IF weekday \in {6, 0, 1} THEN 3 ELSE 1) * MsPerDay
          /\ oldest < latest

\* An execution of Saturday 22:00 is done: L is a Sunday, and the window was
\* widened by a day on each side.
C1_Witness ==
    /\ pc = "done"
    /\ getDay(locals.executedDate) = 6
    /\ getHours(locals.executedDate) = 22
    /\ getDay(locals.normalized) = 0
    /\ locals.latestPubDate - locals.oldestPubDate = 3 * MsPerDay

\* ---- C2
\* C2: for every execution time, the window end before the weekday
\* correction is the start of a calendar day at or after the execution
\* instant: the execution time itself when that is a day-start, the start
\* of the following day otherwise.
C2_NormalizedIsDayStart ==
    HasWindow =>
      LET t == locals.executedDate
          L == locals.normalized
      IN  /\ L % MsPerDay = 0
          /\ L >= t
          /\ L = IF t % MsPerDay = 0 THEN t ELSE t - (t % MsPerDay) + MsPerDay

\* ---- C3
\* The items of a response whose publication time p has oldest < p <= latest.
ExpectedItems(response) ==
    IF response.ok
    THEN SelectSeq(response.items,
            LAMBDA item : /\ item.pubDate.valid
                          /\ locals.oldestPubDate < item.pubDate.t
                          /\ item.pubDate.t <= locals.latestPubDate)
    ELSE <<>>

\* The links of the items of the rendered document.
C3_LinksOf(body) ==
    {body[i].v.link : i \in {j \in 1..Len(body) :
                               /\ body[j].el \in {"bold", "text"}
                               /\ body[j].v.is = "item"}}

\* C3: getFeed returns exactly the fetched items with oldest < p <= latest,
\* in feed order (p = oldest excluded, p = latest included), and every item
\* of every section of the published document has oldest < p <= latest.
C3_HalfOpenWindowFilter ==
    /\ \A f \in 1..Len(returned) :
         returned[f].items = ExpectedItems(feeds[Plan[f].feedUrl])
    /\ pc = "done" =>
         \A link \in C3_LinksOf(Published.Body) :
            \E item \in Range(feeds[Plan[link[1]].feedUrl].items) :
               /\ item.link = link
               /\ item.pubDate.valid
               /\ locals.oldestPubDate < item.pubDate.t
               /\ item.pubDate.t <= locals.latestPubDate

\* Tuesday 00:00 is done: the announcement feed held items published at
\* oldest and at latest; only the one at latest (with the one just after
\* oldest) was returned and published.
C3_Witness ==
    /\ pc = "done"
    /\ locals.latestPubDate = At(5, 0, 0, 0, 0)
    /\ feeds[Plan[1].feedUrl].ok
    /\ \E a, b \in Range(feeds[Plan[1].feedUrl].items) :
          /\ a.pubDate = ValidDate(locals.oldestPubDate)
          /\ b.pubDate = ValidDate(locals.latestPubDate)
          /\ a.link \notin C3_LinksOf(Published.Body)
          /\ b.link \in C3_LinksOf(Published.Body)
    /\ Len(returned[1].items) = 2


\* ---- C4
\* C4: when one translation call of a batch fails, the batch still
\* completes, the item keeps its original text and the request goes on to
\* publish: a translation failure never surfaces to the handler's caller.
C4_TranslationFailureIsAbsorbed ==
    (\E i \in 1..Len(batch.state) : batch.state[i] = "rejected")
       => result.state # "rejected"

\* ---- C5
\* The entries of Plan whose feed ended up in the document's data.
C5_Collected(f) ==
    LET p == Plan[f]
        groups == CASE p.section = "youtube" -> data.youtube
                    [] p.section \in {"awsJapanBlogs", "awsBlogs"} -> data.blogs
                    [] OTHER -> data.oss
    IN  IF p.section = "announcements"
        THEN \E i \in 1..Len(data.announcements) : data.announcements[i].link[1] = f
        ELSE \E g \in 1..Len(groups) : groups[g].items[1].link[1] = f

\* C5: when a feed cannot be retrieved or parsed, getFeed does not raise
\* and returns no item; the handler goes on with every remaining group,
\* leaves out only the groups that have no item to show, and writes the
\* digest, whatever the set of failing feeds.  (The handler is rejected
\* only in a batch of translation calls: by the error of a call, or by the
\* function's deadline with calls in flight.)
C5_FeedFailureDegrades ==
    /\ \A f \in 1..Len(returned) :
          ~feeds[Plan[f].feedUrl].ok =>
             ~returned[f].threw /\ returned[f].items = <<>>
    /\ result.state = "rejected" =>
          /\ result.reason \in {"TranslateText error", "Task timed out"}
          /\ pc = "failed"
          /\ \E i \in 1..Len(batch.state) : batch.state[i] \in {"rejected", "inflight"}
    /\ pc \in {"PutObject", "done"} =>
          /\ Len(returned) = Len(Plan)
          /\ \A f \in 1..Len(Plan) :
                C5_Collected(f) <=> (feeds[Plan[f].feedUrl].ok /\ returned[f].items # <<>>)
    /\ pc = "done" =>
          /\ locals.objectKey \in DOMAIN s3
          /\ Published.Body = Render(locals.lang, frontMatter, locals.pubDateRange, data)

\* The digest is written although the announcement feed and the playlist
\* feed failed: the blogs of the feed that answered are in it.
C5_Witness ==
    /\ pc = "done"
    /\ locals.objectKey \in DOMAIN s3
    /\ ~feeds[Plan[1].feedUrl].ok
    /\ ~feeds[Plan[2].feedUrl].ok
    /\ data.announcements = <<>>
    /\ data.youtube = <<>>
    /\ Len(data.blogs) = 1
    /\ \E i \in 1..Len(Published.Body) : Published.Body[i] = [el |-> "h3", v |-> "AWS Blogs"]

\* ---- C6
\* C6: at every moment at most 5 translation calls are in flight, for every
\* batch size and completion order; a call beyond the first 5 of a batch is
\* started only after a call in flight has completed.
C6_AtMostFiveInFlight ==
    /\ [](Cardinality(InFlight(batch)) <= 5)
    /\ [][(pc = "Promise.map" /\ pc' = "Promise.map") =>
            \A i \in 1..Len(batch.state) :
               (batch.state[i] = "queued" /\ batch'.state[i] = "inflight") =>
                  \E j \in 1..Len(batch.state) :
                     batch.state[j] = "inflight" /\ batch'.state[j] = "fulfilled"]_vars
    /\ [][(pc = "parseURL" /\ pc' = "Promise.map") =>
            /\ Len(batch'.state) = Len(returned'[cursor].items)
            /\ \A i \in 1..Len(batch'.state) :
                  batch'.state[i] = (IF i <= 5 THEN "inflight" ELSE "queued")]_vars

\* A batch of more than 5 calls with 5 in flight, one of them started from
\* the queue after another completed, and one still queued.
C6_Witness ==
    /\ pc = "Promise.map"
    /\ Len(batch.state) > 6
    /\ Cardinality(InFlight(batch)) = 5
    /\ \E i, j, k \in 1..Len(batch.state) :
          /\ i <= 5 /\ batch.state[i] = "fulfilled"
          /\ j > 5 /\ batch.state[j] = "inflight"
          /\ k > 5 /\ batch.state[k] = "queued"

\* ---- C7
\* Item `now` is item `was` with the field left as it was or translated.
C7_SameItem(now, was, field) ==
    /\ now.link = was.link
    /\ now.pubDate = was.pubDate
    /\ now.categories = was.categories
    /\ \A k \in {"title", "contentSnippet"} :
          \/ now[k] = was[k]
          \/ k = field /\ now[k] = [s |-> was[k].s, lang |-> locals.lang]

C7_SameList(now, was, field) ==
    /\ Len(now) = Len(was)
    /\ \A i \in 1..Len(now) : C7_SameItem(now[i], was[i], field)

\* C7: for every batch and every completion order, the i-th item's
\* translated field is the translation of the i-th item's own text or that
\* text itself, and the list keeps its length and order: during the batch
\* and in the document's data after it.
C7_PositionalIntegrity ==
    /\ pc = "Promise.map" =>
          C7_SameList(batch.items, returned[cursor].items, Plan[cursor].field)
    /\ (pc \in {"parseURL", "Promise.map", "PutObject", "done"} /\ cursor > 1) =>
          C7_SameList(data.announcements, returned[1].items, Plan[1].field)
    /\ \A g \in 1..Len(data.youtube) :
          LET f == data.youtube[g].items[1].link[1]
          IN  C7_SameList(data.youtube[g].items, returned[f].items, Plan[f].field)
    /\ \A g \in 1..Len(data.blogs) :
          LET f == data.blogs[g].items[1].link[1]
          IN  C7_SameList(data.blogs[g].items, returned[f].items, Plan[f].field)

\* A batch of MaxBatch announcements is done: the first snippet came back
\* translated, the last one (started from the queue) too, the second one
\* was left as it was.
C7_Witness ==
    /\ pc = "done"
    /\ locals.lang = "ja"
    /\ Len(data.announcements) = MaxBatch
    /\ data.announcements[1].contentSnippet.lang = "ja"
    /\ data.announcements[2].contentSnippet.lang = "en"
    /\ data.announcements[MaxBatch].contentSnippet.lang = "ja"
    /\ data.announcements[MaxBatch].link = <<1, MaxBatch>>


\* ---- C8
\* The object key of the i-th invocation.
C8_Key(i) == Locals(log[i].event).objectKey

\* C8: over runs that target the same object key, each finding by its
\* lookup the date the previous run stored, the date every run writes is
\* the execution time of the first run and lastmod the execution time of
\* the current run; when the lookup fails or no object exists, date is the
\* current run's execution time.
C8_DatePreserved ==
    \A i \in 1..Len(log) :
       log[i].wrote.defined =>
          /\ log[i].wrote.key = C8_Key(i)
          /\ log[i].wrote.Metadata.lastmod = toISOString(log[i].event.time.t)
          /\ ~log[i].prior.defined =>
                log[i].wrote.Metadata.date = toISOString(log[i].event.time.t)
          /\ \A j \in 1..(i - 1) :
                ( /\ log[j].wrote.defined
                  /\ C8_Key(j) = C8_Key(i)
                  /\ ~log[j].prior.defined
                  /\ \A k \in (j + 1)..i : C8_Key(k) = C8_Key(i) => log[k].prior.defined )
                => log[i].wrote.Metadata.date = toISOString(log[j].event.time.t)

\* The draft of Monday 22:00 then the final run of Tuesday 00:00 wrote the
\* same key: the final run found the draft's date and kept it.
C8_Witness ==
    /\ Len(log) >= 2
    /\ log[1].wrote.defined /\ log[2].wrote.defined
    /\ C8_Key(1) = C8_Key(2)
    /\ log[1].event.isDraft /\ ~log[2].event.isDraft
    /\ log[2].prior.defined
    /\ log[2].wrote.Metadata.date = toISOString(log[1].event.time.t)
    /\ log[2].wrote.Metadata.date # log[2].wrote.Metadata.lastmod
    /\ s3[C8_Key(2)].Metadata = log[2].wrote.Metadata

\* ---- C9
\* The product names of a list of items: every category string split on
\* ",", the entries with the product prefix kept, the prefix stripped.
C9_ProductNames(items) ==
    LET strings == UNION {Range(items[i].categories) : i \in 1..Len(items)}
        entries == UNION {Range(split(c, ",")) : c \in strings}
    IN  {SubSeq(e, Len(ProductPrefix) + 1, Len(e)) :
             e \in {x \in entries : /\ Len(x) >= Len(ProductPrefix)
                                    /\ \A k \in 1..Len(ProductPrefix) : x[k] = ProductPrefix[k]}}

C9_NoDuplicates(tags) ==
    \A i, j \in 1..Len(tags) : tags[i] = tags[j] => i = j

\* C9: the tags of the published frontMatter hold no duplicate and are
\* exactly the product names of the announcement items of the window.
C9_TagsAreTheProductSet ==
    pc \in {"PutObject", "done"} =>
       /\ C9_NoDuplicates(frontMatter.tags)
       /\ Range(frontMatter.tags) = C9_ProductNames(ExpectedItems(feeds[Plan[1].feedUrl]))
       /\ pc = "done" =>
             /\ Published.Body[1].v.json.tags = frontMatter.tags
             /\ Published.Metadata.tags = arrayToString(frontMatter.tags)

\* Two announcements were published that both carry s3, one of them ec2
\* too: the document's tags are s3 and ec2, once each.
C9_Witness ==
    /\ pc = "done"
    /\ Len(data.announcements) = 2
    /\ Len(PushProducts(<<>>, data.announcements)) = 3
    /\ Published.Body[1].v.json.tags = <<S3, EC2>>

\* ---- C10
\* The h3 headers of a body, in order.
C10_Headers(body) ==
    LET h3 == SelectSeq(body, LAMBDA e : e.el = "h3")
    IN  [i \in 1..Len(h3) |-> h3[i].v]

\* Whether a feed of one of the sections has an item of the window.
C10_HasItems(sections) ==
    \E f \in 1..Len(Plan) :
       Plan[f].section \in sections /\ ExpectedItems(feeds[Plan[f].feedUrl]) # <<>>

\* C10: a group with no item of the window is never added to the document;
\* a section is rendered only if it has a non-empty group; the sections
\* come in the order announcements, video, blogs, projects; with no item in
\* any non-primary group the body holds the announcements section only.
C10_SectionsOnlyWhenNonEmpty ==
    /\ \A g \in 1..Len(data.youtube) : data.youtube[g].items # <<>>
    /\ \A g \in 1..Len(data.blogs) : data.blogs[g].items # <<>>
    /\ \A g \in 1..Len(data.oss) : data.oss[g].items # <<>>
    /\ pc = "done" =>
          LET body == Published.Body
          IN  /\ C10_Headers(body) =
                    <<IF locals.lang = "ja" THEN "saikin no happyou"
                      ELSE "Recent Announcements">>
                    \o (IF C10_HasItems({"youtube"}) THEN <<"YouTube">> ELSE <<>>)
                    \o (IF C10_HasItems({"awsJapanBlogs", "awsBlogs"})
                        THEN <<"AWS Blogs">> ELSE <<>>)
                    \o (IF C10_HasItems({"oss"}) THEN <<"Open Source Project">> ELSE <<>>)
              /\ \A i \in 1..Len(body) :
                    body[i].el = "h4" =>
                       \E j \in (i + 1)..(i + 2) :
                          /\ j <= Len(body)
                          /\ body[j].el = "text"
                          /\ body[j].v.is = "item"
              /\ ~C10_HasItems({"youtube", "awsJapanBlogs", "awsBlogs", "oss"}) =>
                    /\ Len(C10_Headers(body)) = 1
                    /\ \A i \in 1..Len(body) : body[i].el # "h4"

\* A digest is published with two announcements and nothing else, although
\* the playlist feed answered (with an item outside the window): its body
\* holds the announcements section only.
C10_Witness ==
    /\ pc = "done"
    /\ feeds[Plan[2].feedUrl].ok
    /\ feeds[Plan[2].feedUrl].items # <<>>
    /\ Len(data.announcements) = 2
    /\ ~C10_HasItems({"youtube", "awsJapanBlogs", "awsBlogs", "oss"})
    /\ Len(C10_Headers(Published.Body)) = 1
    /\ \A i \in 1..Len(Published.Body) : Published.Body[i].el # "h4"

\* ---- C11
\* C11: a request whose execution time is missing or does not parse is
\* rejected (the error reaches the caller) before any call to the storage,
\* and writes nothing; conversely the handler is rejected in no other case:
\* no error of a feed, of a translation call or of the metadata lookup
\* reaches the caller.
C11_OnlyWindowErrorsSurface ==
    /\ (pc # "idle" /\ ~Run.event.time.valid) =>
          /\ pc = "failed"
          /\ result.state = "rejected"
          /\ Run.wrote = Undefined
          /\ DOMAIN s3 = {}
    /\ result.state = "rejected" => ~Run.event.time.valid

\* ---- C12
\* C12: a request with a valid window in which no call answered with an
\* error ends only by writing its digest: a translation call that does not
\* answer is given up and its text kept as it was, so the request never ends
\* with a call still in flight and nothing written.
C12_UnansweredCallIsAbandoned ==
    (/\ HasWindow
     /\ pc \in {"done", "failed"}
     /\ \A i \in 1..Len(batch.state) : batch.state[i] # "rejected")
       => /\ pc = "done"
          /\ InFlight(batch) = {}
          /\ Run.wrote # Undefined
          /\ locals.objectKey \in DOMAIN s3

\* ---- C13
\* The window of the i-th execution delivered.
C13_Window(i) == PubDateWindow(log[i].event.time.t)

\* The executions delivered so far are those of 00:00:00 of consecutive days.
C13_ConsecutiveDays ==
    /\ Len(log) > 0
    /\ \A i \in 1..Len(log) : log[i].event.time.valid
    /\ log[1].event.time.t % MsPerDay = 0
    /\ \A i \in 1..Len(log) :
          log[i].event.time.t = log[1].event.time.t + (i - 1) * MsPerDay

\* C13: the windows (oldest, latest] of the executions of 00:00:00 of
\* consecutive days tile the timeline: two of them are identical or
\* disjoint, and every instant after the first window's oldest and up to the
\* last window's latest lies in exactly one distinct window (the number of
\* windows holding an instant changes only just after a bound, so the
\* instants at and just after every bound decide it); the executions of a
\* Saturday, a Sunday and a Monday all compute (Friday 00:00, Monday 00:00].
C13_WindowsTile ==
    C13_ConsecutiveDays =>
      LET n == Len(log)
          distinct == {C13_Window(i) : i \in 1..n}
          bounds == {w.oldest : w \in distinct} \cup {w.latest : w \in distinct}
          instants == {t \in bounds \cup {b + 1 : b \in bounds} :
                          C13_Window(1).oldest < t /\ t <= C13_Window(n).latest}
      IN  /\ locals.oldestPubDate = C13_Window(n).oldest
          /\ locals.latestPubDate = C13_Window(n).latest
          /\ \A i, j \in 1..n :
                \/ C13_Window(i) = C13_Window(j)
                \/ C13_Window(i).latest <= C13_Window(j).oldest
                \/ C13_Window(j).latest <= C13_Window(i).oldest
          /\ \A t \in instants :
                Cardinality({w \in distinct : w.oldest < t /\ t <= w.latest}) = 1
          /\ \A i \in 1..n :
                LET t == log[i].event.time.t
                IN  /\ getDay(t) = 6 =>
                          C13_Window(i) = [oldest |-> t - MsPerDay, latest |-> t + 2 * MsPerDay]
                    /\ getDay(t) = 0 =>
                          C13_Window(i) = [oldest |-> t - 2 * MsPerDay, latest |-> t + MsPerDay]
                    /\ getDay(t) = 1 =>
                          C13_Window(i) = [oldest |-> t - 3 * MsPerDay, latest |-> t]

\* The executions of a Friday to a Tuesday are done: five executions, three
\* distinct windows, the one of the weekend computed three times.
C13_Witness ==
    /\ C13_ConsecutiveDays
    /\ pc = "done"
    /\ Len(log) = 5
    /\ getDay(log[1].event.time.t) = 5
    /\ Cardinality({C13_Window(i) : i \in 1..5}) = 3
    /\ C13_Window(2) = C13_Window(4)
    /\ C13_Window(1).latest = C13_Window(2).oldest
    /\ C13_Window(4).latest = C13_Window(5).oldest

\* ---- C14
\* What the i-th execution delivered computes.
C14_Locals(i) == Locals(log[i].event)

\* Executions i and j are, in one language, the draft of 22:00:00 of a day
\* and the final run of 00:00:00 of the next day.
C14_DraftThenFinal(i, j) ==
    LET draft == log[i].event
        final == log[j].event
    IN  /\ draft.lang = final.lang
        /\ draft.time.t % MsPerDay = 22 * MsPerHour
        /\ final.time.t = draft.time.t + 2 * MsPerHour

\* C14: in one language the draft of 22:00 of day D and the final run of
\* 00:00:00 of day D+1 compute the same window, title and object key, and
\* the final run that follows the draft leaves one object in the bucket;
\* two executions in one language compute the same object key if and only
\* if their windows have the same oldest; two executions in different
\* languages never compute the same object key.
C14_DraftAndFinalShareTheKey ==
    (\A i \in 1..Len(log) : log[i].event.time.valid) =>
      /\ \A i, j \in 1..Len(log) :
            LET a == C14_Locals(i)
                b == C14_Locals(j)
            IN  /\ C14_DraftThenFinal(i, j) =>
                      /\ a.oldestPubDate = b.oldestPubDate
                      /\ a.latestPubDate = b.latestPubDate
                      /\ a.articleTitle = b.articleTitle
                      /\ a.objectKey = b.objectKey
                /\ a.lang = b.lang =>
                      (a.objectKey = b.objectKey <=> a.oldestPubDate = b.oldestPubDate)
                /\ a.lang # b.lang => a.objectKey # b.objectKey
      /\ (/\ Len(log) = 2
          /\ C14_DraftThenFinal(1, 2)
          /\ log[1].outcome = "done"
          /\ pc = "done") =>
            /\ DOMAIN s3 = {locals.objectKey}
            /\ log[1].wrote.key = log[2].wrote.key

=============================================================================
